---------------------------- MODULE Spec2Model ----------------------------
(***************************************************************************)
(* A model of the Mattermost webapp performance profiler:                  *)
(*   - main (src/src/index.ts) runs the scenarios of the --test list,      *)
(*   - the scenarios profileSwitchingToEachChannel (src/unnamed/part_004)  *)
(*     and profileScrollingInTwoChannels (src/unnamed/part_003),           *)
(*   - FrameRateMeasurer (src/src/measurers/frameRate.ts): the in-page     *)
(*     frame counter, the 100 ms node timer and stop(),                    *)
(*   - the file writers of src/src/measurers/toFile.ts.                    *)
(*                                                                         *)
(* Node runs one continuation at a time.  A page.evaluate call is sent to  *)
(* the page over the one debugging connection: the page runs the calls in  *)
(* the order they were sent (pageQueue), each atomically, and node resumes *)
(* the callers in the order the results come back (respQueue).             *)
(***************************************************************************)
EXTENDS Integers, Sequences, FiniteSets, TLC

(***************************************************************************)
(* Bounds of the model.                                                    *)
(***************************************************************************)
MaxTests == 2        \* length of the --test list
MaxChannels == 1     \* sidebar links found by profileSwitchingToEachChannel
MaxScrolls == 1      \* scroll iterations modelled per channel
MaxCalc == 2         \* timer callbacks fired in a run
MaxInFlight == 2     \* timer callbacks of one measurer in flight at once
MaxFrames == 1       \* animation frames counted between two samples
MaxTime == 4000      \* the clock of a run of one test stops here (ms)
MaxTimePair == 2000  \* the clock of a run of several tests stops here (ms)
MaxFaults == 1       \* saves of a run in which a file system call fails
MaxRecords == 2      \* records of a list handed to the file writers alone
LongCalc == 50       \* timer callbacks fired in a long run of one scenario

(***************************************************************************)
(* Program constants.                                                      *)
(***************************************************************************)
TickMs == 2000               \* granularity of the modelled clock
RetrieveEveryMs == 2000      \* frameRate.ts:139
IntermediateEvery == 50      \* frameRate.ts:172
BytesPerMB == 1048576        \* 1024 * 1024, measurers/memory.ts
ChannelSwitchWaitMs == 2000  \* part_003:89

TestTypes ==
  {"scroll-one-channel", "scroll-two-channels",
   "switch-same-channels", "switch-each-channel"}

(***************************************************************************)
(* JavaScript values and objects.  A value is tagged with its type; an     *)
(* object is the sequence of its <<key, value>> pairs in insertion order   *)
(* (the order Object.keys and the spread operator use).                    *)
(*   num   an integer                dec2/dec3  n / 100, n / 1000          *)
(*   str   a string                  undef      undefined                  *)
(*   nan   NaN                       inf        Infinity                   *)
(***************************************************************************)
Num(n) == [t |-> "num", n |-> n, s |-> ""]
Dec2(n) == [t |-> "dec2", n |-> n, s |-> ""]
Dec3(n) == [t |-> "dec3", n |-> n, s |-> ""]
Str(s) == [t |-> "str", n |-> 0, s |-> s]
Undefined == [t |-> "undef", n |-> 0, s |-> ""]
NaN == [t |-> "nan", n |-> 0, s |-> ""]
Infinity == [t |-> "inf", n |-> 0, s |-> ""]

Pair(k, v) == [k |-> k, val |-> v]

Range(q) == {q[i] : i \in 1..Len(q)}

ObjectKeys(o) == [i \in 1..Len(o) |-> o[i].k]

HasKey(o, key) == \E i \in 1..Len(o) : o[i].k = key

\* o[key]: undefined when the object has no such key
ObjGet(o, key) ==
  IF HasKey(o, key)
    THEN (CHOOSE p \in Range(o) : p.k = key).val
    ELSE Undefined

\* {...o, key: v}: an existing key keeps its place, a new one goes last
ObjSet(o, key, v) ==
  IF HasKey(o, key)
    THEN [i \in 1..Len(o) |-> IF o[i].k = key THEN Pair(key, v) ELSE o[i]]
    ELSE Append(o, Pair(key, v))

\* Math.round(a / b) for a >= 0, b > 0: halves round up
MathRound(a, b) == (2 * a + b) \div (2 * b)


(***************************************************************************)
(* src/src/measurers/toFile.ts.  A file name is [stem, ext]; a path adds   *)
(* the tag of the emergency and backup names.  Every operator returns      *)
(* [calls, threw]: the fs.writeFile calls it made, in order, each with     *)
(* what was written and whether the call succeeded, and whether the        *)
(* operator threw.  fo tells which calls of the file system succeed:       *)
(* [mkdir, write, backup, emergency], TRUE for success.                    *)
(***************************************************************************)
FileName(stem) == [stem |-> stem, ext |-> ""]

CsvBody(rows) == [fmt |-> "csv", rows |-> rows, data |-> <<>>]
JsonBody(data) == [fmt |-> "json", rows |-> <<>>, data |-> data]
WarningBody == [fmt |-> "warning", rows |-> <<>>, data |-> <<>>]

WriteFile(path, body, ok) == [path |-> path, body |-> body, ok |-> ok]

Returned(calls) == [calls |-> calls, threw |-> FALSE]
Threw(calls) == [calls |-> calls, threw |-> TRUE]

\* the extension is added unless the name already ends with it
createFilePath(filename, extension) ==
  IF extension # "" /\ filename.ext # extension
    THEN [stem |-> filename.stem, ext |-> extension, tag |-> ""]
    ELSE [stem |-> filename.stem, ext |-> filename.ext, tag |-> ""]

\* throws when fs.mkdir fails
ensureResultsDirectory(fo) == IF fo.mkdir THEN Returned(<<>>) ELSE Threw(<<>>)

\* JSON.stringify(data, null, 2): the array of objects as it is in memory
JsonStringify(data) == JsonBody(data)

saveToJson(data, filename, fo) ==
  LET outputFile == createFilePath(filename, ".json")
      backupFile == [outputFile EXCEPT !.tag = "backup"]
      jsonString == JsonStringify(data)
  IN  IF ensureResultsDirectory(fo).threw THEN Threw(<<>>)
      ELSE IF fo.write
        THEN Returned(<<WriteFile(outputFile, jsonString, TRUE)>>)
        ELSE Threw(<<WriteFile(outputFile, jsonString, FALSE),
                     WriteFile(backupFile, jsonString, fo.backup)>>)

\* typeof value === 'string' ? `"${value}"` : (value ?? '')
CsvCell(value) ==
  IF value.t = "str" THEN [quoted |-> TRUE, v |-> value]
  ELSE IF value.t = "undef" THEN [quoted |-> FALSE, v |-> Str("")]
  ELSE [quoted |-> FALSE, v |-> value]

\* a variant of CsvHeaders that takes the keys of the last item
CsvHeadersOfLast(data) == ObjectKeys(data[Len(data)])

\* the columns are the keys of the first item
CsvHeaders(data) == ObjectKeys(data[1])

CsvHeaderRow(csvHeaders) ==
  [j \in 1..Len(csvHeaders) |-> [quoted |-> FALSE, v |-> Str(csvHeaders[j])]]

CsvDataRows(data, csvHeaders) ==
  [i \in 1..Len(data) |->
     [j \in 1..Len(csvHeaders) |-> CsvCell(ObjGet(data[i], csvHeaders[j]))]]

\* [headerRow, ...dataRows], the rows that are joined with newlines
CsvContent(data) ==
  <<CsvHeaderRow(CsvHeaders(data))>> \o CsvDataRows(data, CsvHeaders(data))

saveToCsv(data, filename, fo) ==
  LET outputFile == createFilePath(filename, ".csv")
      backupFile == [stem |-> outputFile.stem, ext |-> ".json",
                     tag |-> "emergency-of-csv"]
  IN  IF ensureResultsDirectory(fo).threw THEN Threw(<<>>)
      ELSE IF Len(data) = 0
        THEN IF fo.write
               THEN Returned(<<WriteFile(outputFile, WarningBody, TRUE)>>)
               ELSE Threw(<<WriteFile(outputFile, WarningBody, FALSE)>>)
      ELSE IF Len(CsvHeaders(data)) = 0 THEN Threw(<<>>)
      ELSE IF fo.write
        THEN Returned(<<WriteFile(outputFile, CsvBody(CsvContent(data)), TRUE)>>)
        ELSE Threw(<<WriteFile(outputFile, CsvBody(CsvContent(data)), FALSE),
                     WriteFile(backupFile, JsonStringify(data), fo.backup)>>)

\* the last-resort write of createAndSaveToFiles; its failure is swallowed
EmergencySave(data, filename, fo) ==
  <<WriteFile([stem |-> filename.stem, ext |-> ".json", tag |-> "emergency"],
              JsonStringify(data), fo.emergency)>>

\* a variant of createAndSaveToFiles without its catch
createAndSaveUncaught(data, filename, format, fo) ==
  IF format = "json" THEN saveToJson(data, filename, fo)
  ELSE IF format = "csv" THEN saveToCsv(data, filename, fo)
  ELSE Returned(<<>>)

createAndSaveToFiles(data, filename, format, fo) ==
  LET saved == IF format = "json" THEN saveToJson(data, filename, fo)
               ELSE IF format = "csv" THEN saveToCsv(data, filename, fo)
               ELSE Returned(<<>>)
  IN  IF saved.threw
        THEN Returned(saved.calls \o EmergencySave(data, filename, fo))
        ELSE saved

\* a variant of DefaultFormat
DefaultFormatJson == "json"

\* format: 'json' | 'csv' = 'csv'
DefaultFormat == "csv"

\* parseFloat((ms / 1000).toFixed(3)) of a number of milliseconds
ToSeconds(value) == IF value.t = "num" THEN Dec3(value.n) ELSE NaN

\* a variant of convertTimestampsToSeconds that puts the seconds in the place
\* of the milliseconds
convertTimestampsInPlace(measurements) ==
  [i \in 1..Len(measurements) |->
     LET m == measurements[i]
         diff == ObjGet(m, "diffTimestamp")
     IN  ObjSet(ObjSet(m, "timestamp", ToSeconds(ObjGet(m, "timestamp"))),
                "diffTimestamp",
                IF diff.t # "undef" THEN ToSeconds(diff) ELSE Undefined)]

convertTimestampsToSeconds(measurements) ==
  [i \in 1..Len(measurements) |->
     LET m == measurements[i]
         diff == ObjGet(m, "diffTimestamp")
     IN  ObjSet(ObjSet(m, "timestamp_sec", ToSeconds(ObjGet(m, "timestamp"))),
                "diffTimestamp_sec",
                IF diff.t # "undef" THEN ToSeconds(diff) ELSE Undefined)]

(***************************************************************************)
(* State.                                                                  *)
(*   now        the clock, Date.now() and performance.now(), in ms         *)
(*   tests      the --test list after split(',') and trim                  *)
(*   main       main's position, loop index, hasFailures, exit code and    *)
(*              the number of browser.close() calls                        *)
(*   sc         per test of the list: the scenario call it makes           *)
(*   msr        per test of the list: the FrameRateMeasurer its scenario   *)
(*              creates                                                    *)
(*   win        the page's window: the injected globals                    *)
(*   pageQueue  page.evaluate calls sent and not yet run by the page       *)
(*   respQueue  results come back and not yet resumed by node              *)
(*   disk       every fs.writeFile call made, in order                     *)
(*   ghost      history: ids handed to samples, samples pushed while a     *)
(*              measurer runs, lists returned by stop(), frames counted,   *)
(*              whether a callback was in flight when stop() was called    *)
(*   saveIn, saveOut   the file writers called on their own                *)
(*   bound      how far this run is explored: [calc, inFlight, frames,     *)
(*              time, faults]; it never changes                            *)
(***************************************************************************)
VARIABLES now, tests, main, sc, msr, win, pageQueue, respQueue, disk, ghost,
          saveIn, saveOut, bound

vars == <<now, tests, main, sc, msr, win, pageQueue, respQueue, disk, ghost,
          saveIn, saveOut, bound>>

progVars == <<now, tests, main, sc, msr, win, pageQueue, respQueue, disk,
              ghost>>

Tests == 1..Len(tests)

FsOutcomes ==
  [mkdir : BOOLEAN, write : BOOLEAN, backup : BOOLEAN, emergency : BOOLEAN]

FsAllOk == [mkdir |-> TRUE, write |-> TRUE, backup |-> TRUE, emergency |-> TRUE]

(***************************************************************************)
(* The page: window globals of src/src/measurers/frameRate.ts 17-29 and    *)
(* the functions the measurer evaluates in it.  win.has holds the names of *)
(* the globals that exist.                                                 *)
(***************************************************************************)
InjectedGlobals ==
  {"__frameCount", "__lastFrameTimestamp", "__frameRateStartTime",
   "__isFrameRateMeasuring", "__frameRateData", "__calculateFPS"}

EmptyWindow ==
  [has |-> {}, frameCount |-> 0, lastFrameTimestamp |-> 0,
   frameRateStartTime |-> 0, isMeasuring |-> FALSE, frameRateData |-> <<>>]

\* start(): the injected script
PageInject(w, t) ==
  [has |-> InjectedGlobals, frameCount |-> 0, lastFrameTimestamp |-> t,
   frameRateStartTime |-> t, isMeasuring |-> TRUE, frameRateData |-> <<>>]

\* a variant of Fps that truncates the quotient
FpsTruncated(frameCount, elapsedSinceLastSample) ==
  IF elapsedSinceLastSample = 0
    THEN (IF frameCount = 0 THEN NaN ELSE Infinity)
    ELSE Num((frameCount * 1000) \div elapsedSinceLastSample)

\* Math.round((frameCount / elapsedSinceLastSample) * 1000)
Fps(frameCount, elapsedSinceLastSample) ==
  IF elapsedSinceLastSample = 0
    THEN (IF frameCount = 0 THEN NaN ELSE Infinity)
    ELSE Num(MathRound(frameCount * 1000, elapsedSinceLastSample))

\* window.__calculateFPS; id is the history's name of the sample it pushes
calculateFPS(w, t, id) ==
  IF ~w.isMeasuring THEN w
  ELSE [w EXCEPT
          !.frameRateData =
             Append(@, [id |-> id, timestamp |-> t,
                        diffTimestamp |-> t - w.frameRateStartTime,
                        frameRate |-> Fps(w.frameCount,
                                          t - w.lastFrameTimestamp)]),
          !.frameCount = 0,
          !.lastFrameTimestamp = t]

\* the script the timer callback evaluates
PageCalc(w, t, id) ==
  IF w.isMeasuring /\ "__calculateFPS" \in w.has
    THEN calculateFPS(w, t, id)
    ELSE w

\* countFrame, run by requestAnimationFrame
countFrame(w) ==
  IF ~w.isMeasuring THEN w ELSE [w EXCEPT !.frameCount = @ + 1]

\* retrieveCurrentMeasurements: the script returns a copy and clears the buffer
PageRetrieveData(w) == w.frameRateData

PageRetrieve(w) ==
  [w EXCEPT !.frameRateData = <<>>, !.has = @ \cup {"__frameRateData"}]

\* stop(): the clean-up script
PageCleanup(w) == EmptyWindow

(***************************************************************************)
(* FrameRateMeasurer, the node side.                                       *)
(***************************************************************************)
NewMeasurer(filename) ==
  [made |-> FALSE, isRunning |-> FALSE, measurements |-> <<>>,
   filename |-> filename, nodeInterval |-> FALSE, startTime |-> 0,
   lastFrameTimestamp |-> 0]

\* a FrameRateMeasurement as the object the page returns
SampleObject(m) ==
  <<Pair("timestamp", Num(m.timestamp)),
    Pair("diffTimestamp", Num(m.diffTimestamp)),
    Pair("frameRate", m.frameRate)>>

\* a variant of SampleObjects that leaves out the last sample
SampleObjectsButLast(ms) ==
  [i \in 1..(Len(ms) - 1) |-> SampleObject(ms[i])]

SampleObjects(ms) == [i \in 1..Len(ms) |-> SampleObject(ms[i])]

\* Array.prototype.sort((a, b) => a.timestamp - b.timestamp): stable
RECURSIVE SortByTimestamp(_)
SortByTimestamp(ms) ==
  IF Len(ms) <= 1 THEN ms
  ELSE LET front == SortByTimestamp(SubSeq(ms, 1, Len(ms) - 1))
           x == ms[Len(ms)]
           keep == {i \in 1..Len(front) : front[i].timestamp <= x.timestamp}
           n == IF keep = {} THEN 0
                ELSE CHOOSE i \in keep : \A j \in keep : j <= i
       IN  SubSeq(front, 1, n) \o <<x>> \o SubSeq(front, n + 1, Len(front))

\* `${this.filename}-intermediate`
IntermediateName(filename) ==
  [stem |-> filename.stem \o "-intermediate", ext |-> filename.ext]

\* a variant of IntermediateDue that is due after every such retrieval
IntermediateDueAlways(measurements) == Len(measurements) > 0

\* saveIntermediate is due after a retrieval that brought samples
IntermediateDue(measurements) ==
  Len(measurements) > 0 /\ Len(measurements) % IntermediateEvery = 0

\* retrieveCurrentMeasurements after its page call: the measurer it leaves
\* (a failed call is logged and changes nothing)
Retrieved(m, ok, currentData) ==
  IF ok /\ Len(currentData) > 0
    THEN [m EXCEPT !.measurements = @ \o currentData]
    ELSE m

\* the fs.writeFile calls of that retrieval: saveIntermediate, when due
RetrievedCalls(m, ok, currentData, fo) ==
  IF ok /\ Len(currentData) > 0
       /\ IntermediateDue(Retrieved(m, ok, currentData).measurements)
    THEN createAndSaveToFiles(
           SampleObjects(Retrieved(m, ok, currentData).measurements),
           IntermediateName(m.filename), DefaultFormat, fo).calls
    ELSE <<>>

\* saveResults(filename): nothing for an empty list; rethrows a failure
saveResults(m, fo) ==
  IF Len(m.measurements) = 0 THEN Returned(<<>>)
  ELSE createAndSaveToFiles(SampleObjects(m.measurements), m.filename,
                            DefaultFormat, fo)

\* stop() after its clean-up call: the calls of the final save, with the
\* emergency write of stop() itself when saveResults throws
StopCalls(m, fo) ==
  IF Len(m.measurements) = 0 THEN <<>>
  ELSE IF saveResults(m, fo).threw
    THEN saveResults(m, fo).calls
           \o <<WriteFile([stem |-> m.filename.stem \o "-emergency",
                           ext |-> ".json", tag |-> ""],
                          JsonStringify(SampleObjects(m.measurements)),
                          fo.emergency)>>
    ELSE saveResults(m, fo).calls

(***************************************************************************)
(* Calls in flight.  who names the caller that awaits the call: start()    *)
(* or stop() of measurer m, or one of its timer callbacks.                 *)
(***************************************************************************)
Call(kind, m, op) == [who |-> [kind |-> kind, m |-> m], op |-> op]

Result(c, ok, data) == [who |-> c.who, op |-> c.op, ok |-> ok, data |-> data]

CallbacksInFlight(m) ==
  Cardinality({i \in 1..Len(pageQueue) :
                 pageQueue[i].who = [kind |-> "cb", m |-> m]})
  + Cardinality({i \in 1..Len(respQueue) :
                   respQueue[i].who = [kind |-> "cb", m |-> m]})

\* the measurers whose measurement is running in the page
Measuring(m) == msr[m].isRunning /\ ghost.injected[m]

\* the disk's record of calls made by `by`; early: made while the collection
\* that produced the data was still going on
Logged(calls, by, k, early) ==
  [i \in 1..Len(calls) |->
     [path |-> calls[i].path, body |-> calls[i].body, ok |-> calls[i].ok,
      by |-> by, k |-> k, early |-> early]]

(***************************************************************************)
(* The page runs the next call sent to it.  The injection of start() may   *)
(* fail; every call fails once the browser is closed.                      *)
(***************************************************************************)
CallOutcomes(c) ==
  IF main.closed > 0 THEN {FALSE}
  ELSE IF c.op = "inject" THEN BOOLEAN
  ELSE {TRUE}

PageAfter(c, w, t, id) ==
  IF c.op = "inject" THEN PageInject(w, t)
  ELSE IF c.op = "calc" THEN PageCalc(w, t, id)
  ELSE IF c.op = "retrieve" THEN PageRetrieve(w)
  ELSE PageCleanup(w)

PageRun ==
  /\ pageQueue # <<>>
  /\ LET c == Head(pageQueue) IN
     \E ok \in CallOutcomes(c) :
       LET after == IF ok THEN PageAfter(c, win, now, ghost.nextId) ELSE win
           pushed == Len(after.frameRateData) > Len(win.frameRateData)
       IN  /\ pageQueue' = Tail(pageQueue)
           /\ win' = after
           /\ respQueue' =
                Append(respQueue,
                       Result(c, ok, IF ok /\ c.op = "retrieve"
                                       THEN PageRetrieveData(win) ELSE <<>>))
           /\ ghost' =
                [ghost EXCEPT
                   !.nextId = IF pushed THEN @ + 1 ELSE @,
                   !.pushed = [m \in DOMAIN @ |->
                                 IF pushed /\ Measuring(m)
                                   THEN @[m] \cup {ghost.nextId} ELSE @[m]],
                   !.injected = [m \in DOMAIN @ |->
                                   IF ok /\ c.op = "inject" /\ c.who.m = m
                                     THEN TRUE ELSE @[m]],
                   !.framesSince = IF pushed \/ (ok /\ c.op \in {"inject", "cleanup"})
                                     THEN 0 ELSE @,
                   !.lastSampleAt = IF pushed \/ (ok /\ c.op = "inject")
                                      THEN now ELSE @]
  /\ UNCHANGED <<now, tests, main, sc, msr, disk, saveIn, saveOut, bound>>

\* requestAnimationFrame runs countFrame
Frame ==
  /\ win.isMeasuring
  /\ win.frameCount < bound.frames
  /\ win' = countFrame(win)
  /\ ghost' = [ghost EXCEPT !.framesSince = @ + 1]
  /\ UNCHANGED <<now, tests, main, sc, msr, pageQueue, respQueue, disk,
                 saveIn, saveOut, bound>>

\* time passes
Tick ==
  /\ now + TickMs <= bound.time
  /\ now' = now + TickMs
  /\ UNCHANGED <<tests, main, sc, msr, win, pageQueue, respQueue, disk, ghost,
                 saveIn, saveOut, bound>>

(***************************************************************************)
(* FrameRateMeasurer.start(), the timer callback and stop(), each cut at   *)
(* its awaits.                                                             *)
(***************************************************************************)
\* a variant of Started without the isRunning test
StartedAnyway(m, t) ==
  [m EXCEPT !.made = TRUE, !.isRunning = TRUE, !.measurements = <<>>,
            !.startTime = t, !.lastFrameTimestamp = t]

\* start() up to its page call: nothing when already running
Started(m, t) ==
  IF m.isRunning THEN m
  ELSE [m EXCEPT !.made = TRUE, !.isRunning = TRUE, !.measurements = <<>>,
                 !.startTime = t, !.lastFrameTimestamp = t]

\* start() after its page call: setInterval, or the catch
StartResumed(m, ok) ==
  IF ok THEN [m EXCEPT !.nodeInterval = TRUE]
  ELSE [m EXCEPT !.isRunning = FALSE]

\* the scenario position that follows the given one
AfterStart == "body"
AfterStop == "save"

ResumeStart ==
  /\ respQueue # <<>>
  /\ Head(respQueue).who.kind = "start"
  /\ LET r == Head(respQueue)
         k == r.who.m
     IN  /\ msr' = [msr EXCEPT ![k] = StartResumed(@, r.ok)]
         /\ sc' = [sc EXCEPT ![k].pc = AfterStart]
  /\ respQueue' = Tail(respQueue)
  /\ UNCHANGED <<now, tests, main, win, pageQueue, disk, ghost, saveIn,
                 saveOut, bound>>

\* process.exit(1) ends the node process: no timer or callback runs after it
ProcessLive == main.pc # "exited"

\* the interval fires: the callback up to its first await
TimerFire(k) ==
  /\ ProcessLive
  /\ msr[k].nodeInterval
  /\ ghost.fired < bound.calc
  /\ CallbacksInFlight(k) < bound.inFlight
  /\ IF ~msr[k].isRunning
       THEN /\ msr' = [msr EXCEPT ![k].nodeInterval = FALSE]
            /\ UNCHANGED pageQueue
       ELSE /\ pageQueue' = Append(pageQueue, Call("cb", k, "calc"))
            /\ UNCHANGED msr
  /\ ghost' = [ghost EXCEPT !.fired = @ + 1]
  /\ UNCHANGED <<now, tests, main, sc, win, respQueue, disk, saveIn, saveOut, bound>>

\* a variant of RetrievalDue without the test of the elapsed time
RetrievalDueEveryCallback(m, t, ok) == ok

\* every 2 seconds the callback goes on to retrieve the measurements
RetrievalDue(m, t, ok) == ok /\ t - m.lastFrameTimestamp >= RetrieveEveryMs

CallbackAfterCalc ==
  /\ ProcessLive
  /\ respQueue # <<>>
  /\ Head(respQueue).who.kind = "cb"
  /\ Head(respQueue).op = "calc"
  /\ LET r == Head(respQueue)
         k == r.who.m
     IN  IF RetrievalDue(msr[k], now, r.ok)
           THEN /\ msr' = [msr EXCEPT ![k].lastFrameTimestamp = now]
                /\ pageQueue' = Append(pageQueue, Call("cb", k, "retrieve"))
                /\ ghost' = [ghost EXCEPT
                               !.retrievals[k] = Append(@, now)]
           ELSE UNCHANGED <<msr, pageQueue, ghost>>
  /\ respQueue' = Tail(respQueue)
  /\ UNCHANGED <<now, tests, main, sc, win, disk, saveIn, saveOut, bound>>

\* the outcomes of the file system calls of one save
FsChoices(saving) ==
  IF saving /\ ghost.faults < bound.faults THEN FsOutcomes ELSE {FsAllOk}

Faults(fo) == IF fo = FsAllOk THEN ghost.faults ELSE ghost.faults + 1

RetrievalSaves(m, r) ==
  IntermediateDue(Retrieved(m, r.ok, r.data).measurements)

CallbackAfterRetrieve ==
  /\ ProcessLive
  /\ respQueue # <<>>
  /\ Head(respQueue).who.kind = "cb"
  /\ Head(respQueue).op = "retrieve"
  /\ LET r == Head(respQueue)
         k == r.who.m
     IN  \E fo \in FsChoices(RetrievalSaves(msr[k], r)) :
           /\ msr' = [msr EXCEPT ![k] = Retrieved(@, r.ok, r.data)]
           /\ disk' = disk \o Logged(RetrievedCalls(msr[k], r.ok, r.data, fo),
                                     "measurer", k, ~ghost.stopCalled[k])
           /\ ghost' = [ghost EXCEPT !.faults = Faults(fo)]
  /\ respQueue' = Tail(respQueue)
  /\ UNCHANGED <<now, tests, main, sc, win, pageQueue, saveIn, saveOut, bound>>

\* a variant of StopCalled that leaves the interval set
StopCalledTimerKept(m) == m

\* stop() up to its first await; not running: it returns [] at once
StopCalled(m) == [m EXCEPT !.nodeInterval = FALSE]

\* a variant of Stop without the isRunning test
StopAnyway(k) ==
  /\ msr' = [msr EXCEPT ![k] = StopCalled(@)]
  /\ pageQueue' = Append(pageQueue, Call("stop", k, "retrieve"))
  /\ sc' = [sc EXCEPT ![k].pc = "stopping"]
  /\ ghost' = [ghost EXCEPT !.stopCalled[k] = TRUE,
                            !.stopRet[k] = [done |-> FALSE, list |-> <<>>],
                            !.overlapped[k] = CallbacksInFlight(k) > 0]

Stop(k) ==
  IF ~msr[k].isRunning
    THEN /\ sc' = [sc EXCEPT ![k].pc = AfterStop]
         /\ ghost' = [ghost EXCEPT !.stopRet[k] = [done |-> TRUE, list |-> <<>>]]
         /\ UNCHANGED <<msr, pageQueue>>
    ELSE /\ msr' = [msr EXCEPT ![k] = StopCalled(@)]
         /\ pageQueue' = Append(pageQueue, Call("stop", k, "retrieve"))
         /\ sc' = [sc EXCEPT ![k].pc = "stopping"]
         /\ ghost' = [ghost EXCEPT !.stopCalled[k] = TRUE,
                                   !.stopRet[k] = [done |-> FALSE, list |-> <<>>],
                                   !.overlapped[k] = CallbacksInFlight(k) > 0]

StopAfterRetrieve ==
  /\ respQueue # <<>>
  /\ Head(respQueue).who.kind = "stop"
  /\ Head(respQueue).op = "retrieve"
  /\ LET r == Head(respQueue)
         k == r.who.m
     IN  \E fo \in FsChoices(RetrievalSaves(msr[k], r)) :
           /\ msr' = [msr EXCEPT ![k] = Retrieved(@, r.ok, r.data)]
           /\ disk' = disk \o Logged(RetrievedCalls(msr[k], r.ok, r.data, fo),
                                     "measurer", k, ~ghost.stopCalled[k])
           /\ pageQueue' = Append(pageQueue, Call("stop", k, "cleanup"))
           /\ ghost' = [ghost EXCEPT !.faults = Faults(fo)]
  /\ respQueue' = Tail(respQueue)
  /\ UNCHANGED <<now, tests, main, sc, win, saveIn, saveOut, bound>>

\* stop() after the clean-up call: not running, sorted, saved, returned
Stopped(m) ==
  [m EXCEPT !.isRunning = FALSE, !.measurements = SortByTimestamp(@)]

StopAfterCleanup ==
  /\ respQueue # <<>>
  /\ Head(respQueue).who.kind = "stop"
  /\ Head(respQueue).op = "cleanup"
  /\ LET r == Head(respQueue)
         k == r.who.m
     IN  \E fo \in FsChoices(Len(msr[k].measurements) > 0) :
           /\ msr' = [msr EXCEPT ![k] = Stopped(@)]
           /\ disk' = disk \o Logged(StopCalls(Stopped(msr[k]), fo),
                                     "measurer", k, ~ghost.stopCalled[k])
           /\ ghost' = [ghost EXCEPT
                          !.faults = Faults(fo),
                          !.stopRet[k] =
                             [done |-> TRUE,
                              list |-> Stopped(msr[k]).measurements]]
           /\ sc' = [sc EXCEPT ![k].pc = AfterStop]
  /\ respQueue' = Tail(respQueue)
  /\ UNCHANGED <<now, tests, main, win, pageQueue, saveIn, saveOut, bound>>

(***************************************************************************)
(* The scenarios.  A page or protocol call of a scenario itself either     *)
(* returns or throws; what it returns is drawn from a small set.           *)
(***************************************************************************)
HeapSizes == {5767168}     \* JSHeapTotalSize, in bytes
ScrollPositions == {300}   \* container.scrollTop

\* measureMemoryUsage: parseFloat((heapTotal / 1024 / 1024).toFixed(2))
measureMemoryUsage(heapTotal, t) ==
  <<Pair("heapTotalMB", Dec2(MathRound(heapTotal * 100, BytesPerMB))),
    Pair("timestamp", Num(t))>>

IdleScenario ==
  [pc |-> "idle", measurements |-> <<>>, first |-> <<>>, n |-> 0, i |-> 0,
   chan |-> 1, nav |-> FALSE, startTimestamp |-> 0, handed |-> <<>>,
   result |-> <<>>]

IsSwitch(k) == tests[k] = "switch-each-channel"
IsScroll(k) == tests[k] = "scroll-two-channels"

InProgress(k) == sc[k].pc \notin {"idle", "returned", "threw"}

FramerateFile(k) ==
  IF IsSwitch(k) THEN FileName("switch-each-channel-framerate")
  ELSE FileName("scroll-two-channels-framerate")

MemoryFile(k) ==
  IF IsSwitch(k) THEN FileName("switch-each-channel-memory-profile")
  ELSE FileName("scroll-two-channels-memory-profile")

\* forceGarbageCollection (after fs.mkdir, whose failure is swallowed, in
\* profileScrollingInTwoChannels), which may throw; then
\* new FrameRateMeasurer(page, filename); await frameRateMeasurer.start()
ScStart(k) ==
  /\ sc[k].pc = "start"
  /\ LET fresh == NewMeasurer(FramerateFile(k)) IN
     \/ /\ sc' = [sc EXCEPT ![k].pc = "threw"]
        /\ UNCHANGED <<msr, pageQueue>>
     \/ /\ msr' = [msr EXCEPT ![k] = Started(fresh, now)]
        /\ IF fresh.isRunning
             THEN /\ sc' = [sc EXCEPT ![k].pc = AfterStart]
                  /\ UNCHANGED pageQueue
             ELSE /\ sc' = [sc EXCEPT ![k].pc = "starting"]
                  /\ pageQueue' = Append(pageQueue, Call("start", k, "inject"))
  /\ UNCHANGED <<now, tests, main, win, respQueue, disk, ghost, saveIn,
                 saveOut, bound>>

\* page.waitForSelector('#sidebar-left') and the sidebar links
ScLinks(k) ==
  /\ IsSwitch(k)
  /\ sc[k].pc = "body"
  /\ ~sc[k].nav
  /\ \/ sc' = [sc EXCEPT ![k].pc = "threw"]
     \/ \E n \in 0..MaxChannels :
          sc' = [sc EXCEPT ![k].nav = TRUE, ![k].n = n, ![k].i = 0]
  /\ UNCHANGED <<now, tests, main, msr, win, pageQueue, respQueue, disk,
                 ghost, saveIn, saveOut, bound>>

\* the sidebar links, in the order they are found
ChannelId(i) ==
  IF i = 1 THEN Str("sidebarItem_town-square") ELSE Str("sidebarItem_off-topic")

ChannelAriaLabel(i) ==
  IF i = 1 THEN Str("town square public channel")
  ELSE Str("off-topic public channel")

\* one record of profileSwitchingToEachChannel
SwitchRecord(heapTotal, t, startTime, i) ==
  ObjSet(ObjSet(ObjSet(measureMemoryUsage(heapTotal, t),
                       "diffTimestamp", Num(t - startTime)),
                "channelAriaLabel", ChannelAriaLabel(i)),
         "channelId", ChannelId(i))

\* click the channel, wait, measure, push; after the last one, stop()
ScSwitch(k) ==
  /\ IsSwitch(k)
  /\ sc[k].pc = "body"
  /\ sc[k].nav
  /\ IF sc[k].i < sc[k].n
       THEN /\ \/ sc' = [sc EXCEPT ![k].pc = "threw"]
               \/ \E heapTotal \in HeapSizes :
                    sc' = [sc EXCEPT
                             ![k].measurements =
                                Append(@, SwitchRecord(heapTotal, now,
                                                       main.startTime,
                                                       sc[k].i + 1)),
                             ![k].i = @ + 1]
            /\ UNCHANGED <<msr, pageQueue, ghost>>
       ELSE Stop(k)
  /\ UNCHANGED <<now, tests, main, win, respQueue, disk, saveIn, saveOut, bound>>

\* profileScrollingInChannel: navigate, wait, the initial measurement
ScNav(k) ==
  /\ IsScroll(k)
  /\ sc[k].pc = "body"
  /\ ~sc[k].nav
  /\ \/ sc' = [sc EXCEPT ![k].pc = "threw"]
     \/ \E heapTotal \in HeapSizes :
          sc' = [sc EXCEPT
                   ![k].nav = TRUE, ![k].i = 0, ![k].startTimestamp = now,
                   ![k].measurements =
                      <<ObjSet(ObjSet(measureMemoryUsage(heapTotal, now),
                                      "diffTimestamp", Num(0)),
                               "scrollPosition", Num(0))>>]
  /\ UNCHANGED <<now, tests, main, msr, win, pageQueue, respQueue, disk,
                 ghost, saveIn, saveOut, bound>>

ScrollRecord(heapTotal, t, startTimestamp, scrollPosition) ==
  ObjSet(ObjSet(measureMemoryUsage(heapTotal, t),
                "diffTimestamp", Num(t - startTimestamp)),
         "scrollPosition", Num(scrollPosition))

\* m.diffTimestamp || 0
OrZero(value) == IF value.t = "num" THEN value.n ELSE 0

\* combinedMeasurements of profileScrollingInTwoChannels
Combined(first, second) ==
  LET timeOffset ==
        (IF Len(first) > 0
           THEN OrZero(ObjGet(first[Len(first)], "diffTimestamp")) ELSE 0)
        + ChannelSwitchWaitMs
  IN  [i \in 1..Len(first) |->
         ObjSet(first[i], "channel", Str("sidebarItem_town-square"))]
      \o
      [i \in 1..Len(second) |->
         ObjSet(ObjSet(second[i], "channel", Str("sidebarItem_off-topic")),
                "diffTimestamp",
                Num(OrZero(ObjGet(second[i], "diffTimestamp")) + timeOffset))]

\* one scroll of the loop; after the last one the next channel, or stop()
ScScroll(k) ==
  /\ IsScroll(k)
  /\ sc[k].pc = "body"
  /\ sc[k].nav
  /\ IF sc[k].i < MaxScrolls
       THEN /\ \/ sc' = [sc EXCEPT ![k].pc = "threw"]
               \/ \E heapTotal \in HeapSizes, pos \in ScrollPositions :
                    sc' = [sc EXCEPT
                             ![k].measurements =
                                Append(@, ScrollRecord(heapTotal, now,
                                                       sc[k].startTimestamp,
                                                       pos)),
                             ![k].i = @ + 1]
            /\ UNCHANGED <<msr, pageQueue, ghost>>
       ELSE IF sc[k].chan = 1
         THEN /\ sc' = [sc EXCEPT ![k].first = sc[k].measurements,
                                  ![k].measurements = <<>>,
                                  ![k].chan = 2, ![k].nav = FALSE]
              /\ UNCHANGED <<msr, pageQueue, ghost>>
         ELSE Stop(k)
  /\ UNCHANGED <<now, tests, main, win, respQueue, disk, saveIn, saveOut, bound>>

\* the list the scenario hands to createAndSaveToFiles
Handed(k) ==
  IF IsSwitch(k) THEN convertTimestampsToSeconds(sc[k].measurements)
  ELSE Combined(sc[k].first, sc[k].measurements)

\* the list the scenario returns
ScenarioResult(k) ==
  IF IsSwitch(k) THEN sc[k].measurements
  ELSE Combined(sc[k].first, sc[k].measurements)

\* the scenario's measurement loop is over
CollectionEnded(k) == sc[k].pc \in {"save", "returned"}

\* await createAndSaveToFiles(data, filename); return
ScSave(k) ==
  /\ sc[k].pc = "save"
  /\ \E fo \in FsChoices(TRUE) :
       /\ disk' = disk \o Logged(createAndSaveToFiles(Handed(k), MemoryFile(k),
                                                      DefaultFormat, fo).calls,
                                 "scenario", k, ~CollectionEnded(k))
       /\ ghost' = [ghost EXCEPT !.faults = Faults(fo)]
  /\ sc' = [sc EXCEPT ![k].pc = "returned", ![k].handed = Handed(k),
                      ![k].result = ScenarioResult(k)]
  /\ UNCHANGED <<now, tests, main, msr, win, pageQueue, respQueue, saveIn,
                 saveOut, bound>>

(***************************************************************************)
(* main (src/src/index.ts 72-178).                                         *)
(***************************************************************************)
\* the cases of the switch on testType
Implemented == {"scroll-two-channels", "switch-each-channel"}

\* no --test: help and return; else the browser set-up, which may throw
MainSetup ==
  /\ main.pc = "setup"
  /\ IF tests = <<>>
       THEN main' = [main EXCEPT !.pc = "done"]
       ELSE \E ok \in BOOLEAN :
              main' = IF ok
                        THEN [main EXCEPT !.pc = "loop", !.i = 1,
                                          !.startTime = now]
                        ELSE [main EXCEPT !.pc = "exited", !.exitCode = 1]
  /\ UNCHANGED <<now, tests, sc, msr, win, pageQueue, respQueue, disk, ghost,
                 saveIn, saveOut, bound>>

\* the loop body up to the await of the scenario, or the default case
MainTest ==
  /\ main.pc = "loop"
  /\ main.i <= Len(tests)
  /\ IF tests[main.i] \in Implemented
       THEN /\ sc' = [sc EXCEPT ![main.i].pc = "start"]
            /\ main' = [main EXCEPT !.pc = "await"]
       ELSE /\ main' = [main EXCEPT !.i = @ + 1]
            /\ UNCHANGED sc
  /\ UNCHANGED <<now, tests, msr, win, pageQueue, respQueue, disk, ghost,
                 saveIn, saveOut, bound>>

\* a variant of AfterScenario whose catch throws the error on, into the
\* outer catch of main
AfterScenarioRethrown(m, threw) ==
  IF threw THEN [m EXCEPT !.pc = "exited", !.exitCode = 1]
  ELSE [m EXCEPT !.pc = "loop", !.i = @ + 1]

\* main after the awaited scenario: the catch of the loop body sets
\* hasFailures and goes on with the next test
AfterScenario(m, threw) ==
  [m EXCEPT !.pc = "loop", !.i = @ + 1, !.hasFailures = @ \/ threw]

\* a variant of Settled that does not wait for the scenario
SettledUnawaited(k) == TRUE

\* await: the scenario promise has settled
Settled(k) == sc[k].pc \in {"returned", "threw"}

\* the scenario returned, or threw into the catch of the loop body
MainAwait ==
  /\ main.pc = "await"
  /\ Settled(main.i)
  /\ main' = AfterScenario(main, sc[main.i].pc = "threw")
  /\ UNCHANGED <<now, tests, sc, msr, win, pageQueue, respQueue, disk, ghost,
                 saveIn, saveOut, bound>>

\* after the loop: wait 5 seconds, browser.close(); a close that throws is
\* caught by the outer catch of main, which calls process.exit(1)
MainClose ==
  /\ main.pc = "loop"
  /\ main.i > Len(tests)
  /\ \E ok \in BOOLEAN :
       main' = IF ok THEN [main EXCEPT !.pc = "done", !.closed = @ + 1]
               ELSE [main EXCEPT !.pc = "exited", !.closed = @ + 1,
                                 !.exitCode = 1]
  /\ UNCHANGED <<now, tests, sc, msr, win, pageQueue, respQueue, disk, ghost,
                 saveIn, saveOut, bound>>

(***************************************************************************)
(* The program.                                                            *)
(***************************************************************************)
SeqsUpTo(S, n) == UNION {[1..m -> S] : m \in 0..n}

NoSave ==
  [data |-> <<>>, filename |-> FileName(""), format |-> "default",
   fo |-> FsAllOk]

NotSaved == [fn |-> "none", calls |-> <<>>, threw |-> FALSE]

ProgInit ==
  /\ now = 0
  /\ main = [pc |-> "setup", i |-> 0, hasFailures |-> FALSE, exitCode |-> 0,
             closed |-> 0, startTime |-> 0]
  /\ sc = [k \in Tests |-> IdleScenario]
  /\ msr = [k \in Tests |-> NewMeasurer(FramerateFile(k))]
  /\ win = EmptyWindow
  /\ pageQueue = <<>>
  /\ respQueue = <<>>
  /\ disk = <<>>
  /\ ghost = [nextId |-> 1,
              pushed |-> [k \in Tests |-> {}],
              injected |-> [k \in Tests |-> FALSE],
              stopCalled |-> [k \in Tests |-> FALSE],
              overlapped |-> [k \in Tests |-> FALSE],
              stopRet |-> [k \in Tests |-> [done |-> FALSE, list |-> <<>>]],
              fired |-> 0, faults |-> 0,
              retrievals |-> [k \in Tests |-> <<>>],
              framesSince |-> 0, lastSampleAt |-> 0]

\* How far a run of n tests is explored: with overlapping timer callbacks,
\* with a failing file system, or (a run of one test) with counted frames
\* and a longer time.
RunBounds(n) ==
  {[calc |-> MaxCalc, inFlight |-> MaxInFlight, frames |-> 0,
    time |-> MaxTimePair, faults |-> 0],
   [calc |-> 1, inFlight |-> 1, frames |-> 0,
    time |-> MaxTimePair, faults |-> MaxFaults]}
  \cup
  (IF n > 1 THEN {}
   ELSE {[calc |-> MaxCalc, inFlight |-> 1, frames |-> MaxFrames,
          time |-> MaxTime, faults |-> 0]})

Init ==
  /\ tests \in SeqsUpTo(TestTypes, MaxTests)
  /\ ProgInit
  /\ saveIn = NoSave
  /\ saveOut = NotSaved
  /\ bound \in RunBounds(Len(tests))

Next ==
  \/ MainSetup
  \/ MainTest
  \/ MainAwait
  \/ MainClose
  \/ \E k \in Tests : ScStart(k)
  \/ \E k \in Tests : ScLinks(k)
  \/ \E k \in Tests : ScSwitch(k)
  \/ \E k \in Tests : ScNav(k)
  \/ \E k \in Tests : ScScroll(k)
  \/ \E k \in Tests : ScSave(k)
  \/ ResumeStart
  \/ \E k \in Tests : TimerFire(k)
  \/ CallbackAfterCalc
  \/ CallbackAfterRetrieve
  \/ StopAfterRetrieve
  \/ StopAfterCleanup
  \/ PageRun
  \/ Frame
  \/ Tick

Spec == Init /\ [][Next]_vars

(***************************************************************************)
(* A long run of profileSwitchingToEachChannel alone: enough timer         *)
(* callbacks for the measurer to collect IntermediateEvery samples.        *)
(***************************************************************************)
InitLong ==
  /\ tests = <<"switch-each-channel">>
  /\ ProgInit
  /\ saveIn = NoSave
  /\ saveOut = NotSaved
  /\ bound = [calc |-> LongCalc, inFlight |-> 1, frames |-> 0,
              time |-> MaxTimePair, faults |-> 0]

\* the runs of Spec together with the long run
SpecAll == (Init \/ InitLong) /\ [][Next]_vars

(***************************************************************************)
(* The file writers called on their own, on every list of up to MaxRecords *)
(* objects over two keys, under every outcome of the file system.          *)
(***************************************************************************)
SaveKeys == {"timestamp", "channelName"}
SaveValues == {Num(1000), Str("off-topic"), Undefined}

SaveObjects ==
  {o \in SeqsUpTo([k : SaveKeys, val : SaveValues], Cardinality(SaveKeys)) :
     \A i, j \in 1..Len(o) : o[i].k = o[j].k => i = j}

SaveInputs ==
  [data : SeqsUpTo(SaveObjects, MaxRecords),
   filename : {FileName("memory"), [stem |-> "memory", ext |-> ".csv"]},
   format : {"default", "json"},
   fo : FsOutcomes]

FormatOf(format) == IF format = "default" THEN DefaultFormat ELSE format

CallCreateAndSave ==
  /\ saveOut.fn = "none"
  /\ saveOut' =
       [fn |-> "createAndSaveToFiles",
        calls |-> createAndSaveToFiles(saveIn.data, saveIn.filename,
                                       FormatOf(saveIn.format), saveIn.fo).calls,
        threw |-> createAndSaveToFiles(saveIn.data, saveIn.filename,
                                       FormatOf(saveIn.format), saveIn.fo).threw]
  /\ UNCHANGED <<progVars, saveIn, bound>>

CallSaveToCsv ==
  /\ saveOut.fn = "none"
  /\ saveOut' =
       [fn |-> "saveToCsv",
        calls |-> saveToCsv(saveIn.data, saveIn.filename, saveIn.fo).calls,
        threw |-> saveToCsv(saveIn.data, saveIn.filename, saveIn.fo).threw]
  /\ UNCHANGED <<progVars, saveIn, bound>>

InitSave ==
  /\ tests = <<>>
  /\ ProgInit
  /\ saveIn \in SaveInputs
  /\ saveOut = NotSaved
  /\ bound = [calc |-> 0, inFlight |-> 0, frames |-> 0, time |-> 0,
              faults |-> 0]

NextSave == CallCreateAndSave \/ CallSaveToCsv

SpecSave == InitSave /\ [][NextSave]_vars

(***************************************************************************)
(* A FrameRateMeasurer driven on its own: a caller that awaits each call   *)
(* calls start() and stop() in any order, while the timer, the page and    *)
(* the clock go on.  main.pc tells the last call made and whether the      *)
(* measurer was running when it was made; main.i flips with every call.    *)
(***************************************************************************)
\* the caller is not inside a call
BetweenCalls(k) == sc[k].pc \in {"idle", AfterStart, AfterStop}

\* await frameRateMeasurer.start()
DriveStart(k) ==
  /\ BetweenCalls(k)
  /\ main' = [main EXCEPT
                !.pc = IF msr[k].isRunning THEN "start-running" ELSE "start",
                !.i = 1 - @]
  /\ msr' = [msr EXCEPT ![k] = Started(@, now)]
  /\ IF msr[k].isRunning
       THEN /\ sc' = [sc EXCEPT ![k].pc = AfterStart]
            /\ UNCHANGED pageQueue
       ELSE /\ sc' = [sc EXCEPT ![k].pc = "starting"]
            /\ pageQueue' = Append(pageQueue, Call("start", k, "inject"))
  /\ UNCHANGED <<now, tests, win, respQueue, disk, ghost, saveIn, saveOut,
                 bound>>

\* await frameRateMeasurer.stop()
DriveStop(k) ==
  /\ BetweenCalls(k)
  /\ main' = [main EXCEPT
                !.pc = IF msr[k].isRunning THEN "stop" ELSE "stop-idle",
                !.i = 1 - @]
  /\ Stop(k)
  /\ UNCHANGED <<now, tests, win, respQueue, disk, saveIn, saveOut, bound>>

InitMeasurer ==
  /\ tests = <<"switch-each-channel">>
  /\ now = 0
  /\ main = [pc |-> "drive", i |-> 0, hasFailures |-> FALSE, exitCode |-> 0,
             closed |-> 0, startTime |-> 0]
  /\ sc = [k \in Tests |-> IdleScenario]
  /\ msr = [k \in Tests |-> NewMeasurer(FramerateFile(k))]
  /\ win = EmptyWindow
  /\ pageQueue = <<>>
  /\ respQueue = <<>>
  /\ disk = <<>>
  /\ ghost = [nextId |-> 1,
              pushed |-> [k \in Tests |-> {}],
              injected |-> [k \in Tests |-> FALSE],
              stopCalled |-> [k \in Tests |-> FALSE],
              overlapped |-> [k \in Tests |-> FALSE],
              stopRet |-> [k \in Tests |-> [done |-> FALSE, list |-> <<>>]],
              fired |-> 0, faults |-> 0,
              retrievals |-> [k \in Tests |-> <<>>],
              framesSince |-> 0, lastSampleAt |-> 0]
  /\ saveIn = NoSave
  /\ saveOut = NotSaved
  /\ bound = [calc |-> MaxCalc, inFlight |-> MaxInFlight, frames |-> MaxFrames,
              time |-> MaxTime, faults |-> 0]

NextMeasurer ==
  \/ DriveStart(1)
  \/ DriveStop(1)
  \/ ResumeStart
  \/ TimerFire(1)
  \/ CallbackAfterCalc
  \/ CallbackAfterRetrieve
  \/ StopAfterRetrieve
  \/ StopAfterCleanup
  \/ PageRun
  \/ Frame
  \/ Tick

SpecMeasurer == InitMeasurer /\ [][NextMeasurer]_vars

(***************************************************************************)
(* Properties.                                                             *)
(***************************************************************************)
Finished(k) == sc[k].pc \in {"returned", "threw"}

Running(k) == sc[k].pc \notin {"idle", "returned", "threw"}

\* C1: main runs the scenarios one at a time in the listed order: a
\* scenario is started only when every scenario of an earlier test of the
\* list has returned or thrown, and no two scenarios are in progress at once.
C1_OneScenarioAtATime ==
  /\ \A j, k \in Tests :
       (j < k /\ sc[k].pc # "idle") => (sc[j].pc = "idle" \/ Finished(j))
  /\ \A j, k \in Tests :
       (j < k /\ sc[k].pc # "idle" /\ tests[j] \in Implemented) => Finished(j)
  /\ Cardinality({k \in Tests : Running(k)}) <= 1

\* C1 witness: the second scenario is in progress after the first finished
C1_Witness ==
  \E k \in Tests : k > 1 /\ Running(k) /\ Finished(k - 1)

\* main has gone past test k of the list
Passed(k) ==
  \/ main.pc = "done"
  \/ main.pc \in {"loop", "await"} /\ main.i > k

\* C9: each of the four test types named in the --test option description
\* runs its profiling scenario when it is requested.
C9_EveryNamedTestRuns ==
  \A k \in Tests : (Passed(k) /\ tests[k] \in TestTypes) => sc[k].pc # "idle"

C6_Called ==
  /\ pageQueue # <<>>
  /\ Head(pageQueue).op = "calc"
  /\ pageQueue' = Tail(pageQueue)
  /\ respQueue' # <<>>
  /\ respQueue'[Len(respQueue')].ok
  /\ win.isMeasuring
  /\ now > ghost.lastSampleAt

\* the sample pushed: r is the frame rate of f frames in e milliseconds,
\* the integer nearest to f * 1000 / e, the half rounded up
C6_Pushed ==
  LET f == ghost.framesSince
      e == now - ghost.lastSampleAt
      n == Len(win.frameRateData)
  IN  /\ Len(win'.frameRateData) = n + 1
      /\ SubSeq(win'.frameRateData, 1, n) = win.frameRateData
      /\ LET r == win'.frameRateData[n + 1].frameRate IN
           /\ r.t = "num"
           /\ 2 * r.n * e - e <= 2 * f * 1000
           /\ 2 * f * 1000 < 2 * r.n * e + e
      /\ win'.frameCount = 0
      /\ win'.lastFrameTimestamp = now
      /\ ghost'.framesSince = 0
      /\ ghost'.lastSampleAt = now

Occurrences(list, id) ==
  Cardinality({i \in 1..Len(list) : list[i].id = id})

\* C8: under every interleaving of the sampling timer, frame counting,
\* periodic retrieval and stop(), the list stop() returns holds every sample
\* pushed while the measurer was running exactly once: none lost, none twice.
C8_NoSampleLostOrDuplicated ==
  \A k \in Tests :
    ghost.stopRet[k].done =>
      /\ \A id \in ghost.pushed[k] : Occurrences(ghost.stopRet[k].list, id) = 1
      /\ \A i \in 1..Len(ghost.stopRet[k].list) :
           Occurrences(ghost.stopRet[k].list, ghost.stopRet[k].list[i].id) = 1

\* the fs.writeFile calls scenario k made from its own createAndSaveToFiles
ScenarioWrites(k) ==
  {i \in 1..Len(disk) : disk[i].by = "scenario" /\ disk[i].k = k}

\* C3 as the specification has it: a scenario that completes without error,
\* no file system call having failed, has written its records both as a
\* JSON array file and as a CSV file.
C3_JsonAndCsvWritten ==
  \A k \in Tests :
    (sc[k].pc = "returned" /\ ghost.faults = 0) =>
      /\ \E i \in ScenarioWrites(k) :
           disk[i].ok /\ disk[i].path.ext = ".csv" /\ disk[i].path.tag = ""
      /\ \E i \in ScenarioWrites(k) :
           /\ disk[i].ok
           /\ disk[i].path.ext = ".json"
           /\ disk[i].path.tag = ""
           /\ disk[i].body.fmt = "json"

\* C3: a scenario calls createAndSaveToFiles without a format, which is the
\* format 'csv': the only file it writes under the given name is the CSV
\* file, written at most once; with no file system failure it is written,
\* with a header row and one row per record (a warning line when there is
\* no record); a JSON file comes only from the emergency paths, after the
\* CSV save has failed.
C3_CsvOnlyByDefault ==
  \A k \in Tests :
    sc[k].pc = "returned" =>
      LET w == ScenarioWrites(k) IN
      /\ \A i \in w :
           disk[i].path.tag = "" =>
             /\ disk[i].path.ext = ".csv"
             /\ disk[i].body.fmt \in {"csv", "warning"}
      /\ Cardinality({i \in w : disk[i].path.tag = ""}) <= 1
      /\ \A i \in w :
           disk[i].body.fmt = "json" =>
             /\ disk[i].path.tag # ""
             /\ ~ \E j \in w : disk[j].path.tag = "" /\ disk[j].ok
      /\ ghost.faults = 0 =>
           \E i \in w :
             /\ disk[i].ok
             /\ disk[i].path.tag = ""
             /\ IF sc[k].handed = <<>>
                  THEN disk[i].body = WarningBody
                  ELSE /\ disk[i].body.fmt = "csv"
                       /\ Len(disk[i].body.rows) = Len(sc[k].handed) + 1

\* C3 witness: a scenario returned having written a CSV file with a record
\* in it and no JSON file
C3_Witness ==
  \E k \in Tests :
    /\ sc[k].pc = "returned"
    /\ sc[k].handed # <<>>
    /\ \E i \in ScenarioWrites(k) :
         disk[i].ok /\ disk[i].body.fmt = "csv" /\ Len(disk[i].body.rows) >= 2
    /\ \A i \in ScenarioWrites(k) : disk[i].body.fmt # "json"

CsvSaved ==
  /\ saveOut.fn = "saveToCsv"
  /\ Len(saveIn.data) > 0
  /\ saveIn.fo.mkdir
  /\ saveIn.fo.write

\* the keys that occur in the records, and the column of a key in a header row
KeysOf(data) == UNION {{data[i][j].k : j \in 1..Len(data[i])} : i \in 1..Len(data)}

ColumnOf(header, key) ==
  {j \in 1..Len(header) : header[j] = [quoted |-> FALSE, v |-> Str(key)]}

C7_NeverThrowsAndEmergencySave ==
  saveOut.fn = "createAndSaveToFiles" =>
    /\ ~saveOut.threw
    /\ (~saveIn.fo.mkdir \/ \E i \in 1..Len(saveOut.calls) :
                              saveOut.calls[i].path.tag = "" /\ ~saveOut.calls[i].ok) =>
         /\ saveOut.calls # <<>>
         /\ LET e == saveOut.calls[Len(saveOut.calls)] IN
              /\ e.path.tag = "emergency"
              /\ e.path.ext = ".json"
              /\ e.body = [fmt |-> "json", rows |-> <<>>, data |-> saveIn.data]
              /\ e.ok = saveIn.fo.emergency

\* C7 witness: the primary write failed, the emergency write failed too,
\* and createAndSaveToFiles returned
C7_Witness ==
  /\ saveOut.fn = "createAndSaveToFiles"
  /\ ~saveOut.threw
  /\ Len(saveIn.data) > 0
  /\ \E i \in 1..Len(saveOut.calls) :
       saveOut.calls[i].path.tag = "" /\ ~saveOut.calls[i].ok
  /\ \E i \in 1..Len(saveOut.calls) :
       saveOut.calls[i].path.tag = "emergency" /\ ~saveOut.calls[i].ok

\* the fs.writeFile calls measurer k made
MeasurerWrites(k) ==
  {i \in 1..Len(disk) : disk[i].by = "measurer" /\ disk[i].k = k}

\* the number of records in the body of a file
RecordsIn(body) ==
  IF body.fmt = "csv" THEN Len(body.rows) - 1
  ELSE IF body.fmt = "json" THEN Len(body.data)
  ELSE 0

\* C2 as the specification has it: nothing is written before the collection
\* that produced it has ended (for a measurer, before stop() is called), and
\* each collection that has records is written exactly once (no file system
\* call having failed).
C2_WrittenOnceAtTheEnd ==
  /\ \A i \in 1..Len(disk) : ~disk[i].early
  /\ \A k \in Tests :
       (sc[k].pc = "returned" /\ ghost.faults = 0) =>
         Cardinality(ScenarioWrites(k)) = 1
  /\ \A k \in Tests :
       (ghost.stopRet[k].done /\ ghost.faults = 0
          /\ ghost.stopRet[k].list # <<>>) =>
         Cardinality(MeasurerWrites(k)) = 1

\* C2: a scenario writes its records only after its measurement loop, one
\* file when no file system call fails.  A measurer writes the file of its
\* name only inside stop(), at most once, and (no file system call having
\* failed) exactly when the list stop() returns is not empty.  Everything
\* else a measurer writes, and everything it writes before stop() is called,
\* goes to the "-intermediate" file of its name and holds all the samples
\* retrieved so far, a positive multiple of 50 of them.
C2_FinalOnceIntermediateEvery50 ==
  /\ \A i \in 1..Len(disk) : disk[i].by = "scenario" => ~disk[i].early
  /\ \A k \in Tests :
       (sc[k].pc = "returned" /\ ghost.faults = 0) =>
         Cardinality(ScenarioWrites(k)) = 1
  /\ \A k \in Tests :
       LET final == {i \in MeasurerWrites(k) :
                       /\ disk[i].path.stem = msr[k].filename.stem
                       /\ disk[i].path.tag = ""}
       IN  /\ Cardinality(final) <= 1
           /\ \A i \in final : ~disk[i].early /\ RecordsIn(disk[i].body) > 0
           /\ (ghost.stopRet[k].done /\ ghost.faults = 0) =>
                (final # {} <=> ghost.stopRet[k].list # <<>>)
           /\ ~ghost.stopCalled[k] => final = {}
           /\ \A i \in MeasurerWrites(k) :
                (disk[i].early \/ (i \notin final /\ ghost.faults = 0)) =>
                  /\ disk[i].path.stem = msr[k].filename.stem \o "-intermediate"
                  /\ RecordsIn(disk[i].body) > 0
                  /\ RecordsIn(disk[i].body) % 50 = 0

\* C2 witness: a measurer has written 50 samples to its "-intermediate" file
\* before stop() was called
C2_Witness ==
  \E k \in Tests :
    \E i \in MeasurerWrites(k) :
      /\ disk[i].early
      /\ disk[i].ok
      /\ disk[i].path.stem = msr[k].filename.stem \o "-intermediate"
      /\ RecordsIn(disk[i].body) = 50
      /\ ~ghost.stopCalled[k]

\* the measurers whose interval is set
ActiveTimers == {k \in Tests : msr[k].nodeInterval}

\* C11: at every moment of a run at most one sampling timer is active, and
\* the measurer a scenario started is stopped, its interval cleared, when
\* the scenario has ended, whether it returned or threw.
C11_AtMostOneTimerActive ==
  /\ Cardinality(ActiveTimers) <= 1
  /\ \A k \in Tests :
       Finished(k) => (~msr[k].nodeInterval /\ ~msr[k].isRunning)

\* C12: when every requested test has been attempted and main has closed
\* the browser and returned, no sampling timer is left scheduled, so that
\* the program terminates, whichever scenarios succeeded or failed.
C12_NoTimerLeftWhenMainIsDone ==
  main.pc = "done" => ActiveTimers = {}

\* the caller makes a call of the given kind in this step
Calls(kind) == main'.i # main.i /\ main'.pc = kind

\* C13: start() called while the measurer is running changes nothing: the
\* measurements are kept, no script is sent to the page, the interval is
\* the one there was, and nothing is written.
C13_StartWhileRunningIsNoOp ==
  [][(Calls("start-running") /\ msr[1].isRunning) =>
       /\ msr' = msr
       /\ pageQueue' = pageQueue
       /\ respQueue' = respQueue
       /\ win' = win
       /\ disk' = disk
       /\ sc'[1].pc = AfterStart]_vars

\* C13 witness: start() was called on a running measurer that holds samples
\* and has its interval set
C13_Witness ==
  /\ main.pc = "start-running"
  /\ msr[1].isRunning
  /\ msr[1].nodeInterval
  /\ msr[1].measurements # <<>>
  /\ sc[1].pc = AfterStart
  /\ \A i \in 1..Len(pageQueue) : pageQueue[i].op # "inject"

\* C14: stop() called while the measurer is not running returns an empty
\* list, writes no file, makes no page call and leaves the measurer as it
\* was.
C14_StopWhileIdleIsNoOp ==
  [][(Calls("stop-idle") /\ ~msr[1].isRunning) =>
       /\ msr' = msr
       /\ pageQueue' = pageQueue
       /\ respQueue' = respQueue
       /\ win' = win
       /\ disk' = disk
       /\ ghost'.stopRet[1] = [done |-> TRUE, list |-> <<>>]
       /\ sc'[1].pc = AfterStop]_vars

\* C14 witness: stop() was called on a measurer already stopped, which
\* keeps the samples of its run, and returned the empty list
C14_Witness ==
  /\ main.pc = "stop-idle"
  /\ ~msr[1].isRunning
  /\ msr[1].made
  /\ msr[1].measurements # <<>>
  /\ ghost.stopCalled[1]
  /\ ghost.stopRet[1] = [done |-> TRUE, list |-> <<>>]
  /\ sc[1].pc = AfterStop

\* stop() was called on measurer k while it was running, and has returned
StopReturned(k) == ghost.stopCalled[k] /\ ghost.stopRet[k].done

\* C15: after stop() has returned the measurer is not running, its interval
\* is cleared, none of its timer callbacks has a page call in flight or
\* makes one, and its measurements are the list stop() returned, also when
\* a timer callback was in flight when stop() was called.
C15_QuietAfterStop ==
  \A k \in Tests :
    StopReturned(k) =>
      /\ ~msr[k].isRunning
      /\ ~msr[k].nodeInterval
      /\ CallbacksInFlight(k) = 0
      /\ msr[k].measurements = ghost.stopRet[k].list

\* C15 witness: stop() has returned samples; a timer callback was in flight
\* when it was called
C15_Witness ==
  \E k \in Tests :
    /\ StopReturned(k)
    /\ ghost.overlapped[k]
    /\ ghost.stopRet[k].list # <<>>

\* the writes of measurer k to the results file of its name
FinalWrites(k) ==
  {i \in MeasurerWrites(k) :
     disk[i].path.stem = msr[k].filename.stem /\ disk[i].path.tag = ""}

SortedByTimestamp(list) ==
  \A i, j \in 1..Len(list) : i < j => list[i].timestamp <= list[j].timestamp

\* the file holds the samples of the list, one row each, in the list's order
HoldsSamples(body, list) ==
  /\ body.fmt = "csv"
  /\ Len(body.rows) = Len(list) + 1
  /\ body.rows[1] = <<[quoted |-> FALSE, v |-> Str("timestamp")],
                      [quoted |-> FALSE, v |-> Str("diffTimestamp")],
                      [quoted |-> FALSE, v |-> Str("frameRate")]>>
  /\ \A i \in 1..Len(list) :
       body.rows[i + 1] = <<[quoted |-> FALSE, v |-> Num(list[i].timestamp)],
                            [quoted |-> FALSE, v |-> Num(list[i].diffTimestamp)],
                            [quoted |-> FALSE, v |-> list[i].frameRate]>>

\* C16 as the specification has it: the list stop() returns on a running
\* measurer is sorted by timestamp and is the list stop() saved to the
\* results file (no file system call having failed).
C16_ReturnedListIsSavedList ==
  \A k \in Tests :
    (StopReturned(k) /\ ghost.faults = 0) =>
      /\ SortedByTimestamp(ghost.stopRet[k].list)
      /\ \E i \in FinalWrites(k) :
           disk[i].ok /\ HoldsSamples(disk[i].body, ghost.stopRet[k].list)

\* C16: the list stop() returns on a running measurer is sorted by
\* non-decreasing timestamp.  When it is not empty, it is the list stop()
\* handed to the results file, which holds it row by row when no file
\* system call fails; when it is empty, stop() writes no results file.
C16_ReturnedListSavedWhenNotEmpty ==
  \A k \in Tests :
    StopReturned(k) =>
      LET list == ghost.stopRet[k].list IN
      /\ SortedByTimestamp(list)
      /\ list = <<>> => FinalWrites(k) = {}
      /\ \A i \in FinalWrites(k) : HoldsSamples(disk[i].body, list)
      /\ (list # <<>> /\ ghost.faults = 0) =>
           \E i \in FinalWrites(k) : disk[i].ok

\* C16 witness: stop() returned two samples, which are in the results file
C16_Witness ==
  \E k \in Tests :
    /\ StopReturned(k)
    /\ Len(ghost.stopRet[k].list) >= 2
    /\ \E i \in FinalWrites(k) :
         disk[i].ok /\ Len(disk[i].body.rows) = Len(ghost.stopRet[k].list) + 1

\* C17: when stop() on a running measurer returns, the page is cleaned up:
\* none of the injected globals exists in the page, whatever timer callbacks
\* were in flight.
C17_PageCleanWhenStopReturns ==
  [][\A k \in Tests :
       (~StopReturned(k) /\ StopReturned(k)') => win'.has = {}]_vars

\* C18: between two retrievals started by the timer callbacks of one
\* measurer at least 2000 ms elapse, also when callbacks overlap.
C18_RetrievalsTwoSecondsApart ==
  \A k \in Tests :
    \A i \in 1..(Len(ghost.retrievals[k]) - 1) :
      ghost.retrievals[k][i + 1] - ghost.retrievals[k][i] >= RetrieveEveryMs

\* C18 witness: a second retrieval was started while two callbacks overlap
C18_Witness ==
  \E k \in Tests :
    /\ Len(ghost.retrievals[k]) >= 2
    /\ CallbacksInFlight(k) >= 2

=============================================================================
